---------------------------- MODULE Spec2Model ----------------------------
(***************************************************************************)
(* Knowledge Crystal: the page repository (KBPageService), the vector      *)
(* index wrapper (VectorStoreManager), the embedding service               *)
(* (EmbeddingService), the retrieval service (KBSearchService) and the two *)
(* synthesis services (KBChatService, KBRAGService).                       *)
(*                                                                         *)
(* Representation.                                                         *)
(*  - A text is the sequence of the pieces that                            *)
(*    re.split(r'(?<=[.!?])\s+', text) yields; a piece is [id, w] with w   *)
(*    the number of words of the piece (len(piece.split())).  A piece with *)
(*    w = 0 is the empty piece left by trailing white space, or the only   *)
(*    piece of a white-space-only text.  The empty string is << >>.        *)
(*  - An optional field that is None is a field absent from the record.    *)
(*  - An embedding vector is opaque; the model keeps its dimension only.   *)
(*    The distance of every stored chunk to a query vector is chosen by    *)
(*    the search action (any geometry of the embedding space).             *)
(*  - A similarity of 1.0 is the integer Unit.                             *)
(*  - MongoDB and the ChromaDB get/delete calls are reliable; ChromaDB's   *)
(*    add and query reject a vector whose dimension is not the             *)
(*    collection's; the embedding and generative backends may fail on any  *)
(*    call.                                                                *)
(***************************************************************************)
EXTENDS Integers, Sequences, FiniteSets, TLC

VARIABLES
    pages,      \* kb_pages collection: page id -> page document
    index,      \* ChromaDB collection kb_pages: set of chunk entries
    dim,        \* dimension of the ChromaDB collection ("unset" before the first add)
    nextId,     \* next ObjectId() to be generated
    out,        \* what the last handler call returned (and what it computed on the way)
    calls       \* the update_page coroutines in progress: writer -> position and locals

vars == <<pages, index, dim, nextId, out, calls>>

-----------------------------------------------------------------------------
(* Bounds of the model *)

MaxPages == 2
MaxLimit == 2

(* similarity_score 1.0 *)
Unit == 120

(* EmbeddingService.process_content defaults *)
DefaultChunkSize == 500
DefaultOverlap == 100

-----------------------------------------------------------------------------
(* Texts *)

Piece(i, n) == [id |-> i, w |-> n]

TextA == <<Piece(1, 300)>>
TextB == <<Piece(2, 300), Piece(3, 300)>>
TextC == <<Piece(4, 300)>>
Whitespace == <<Piece(0, 0)>>
EmptyString == << >>

RECURSIVE Words(_)
(* len(s.split()) of a string made of pieces *)
Words(s) == IF s = << >> THEN 0 ELSE Head(s).w + Words(Tail(s))

(* not text or len(text.strip()) == 0 *)
IsBlank(text) == Words(text) = 0

RECURSIVE Join(_)
(* " ".join(list) of a list of strings *)
Join(list) == IF list = << >> THEN << >> ELSE Head(list) \o Join(Tail(list))

(* list[:k], the first k elements in place of the last *)
SliceFirst(list, k) ==
    IF k >= Len(list) THEN list ELSE SubSeq(list, 1, k)

(* list[-k:] of Python, k >= 0: the whole list when k = 0 or k >= len(list) *)
SliceLast(list, k) ==
    IF k = 0 \/ k >= Len(list) THEN list
    ELSE SubSeq(list, Len(list) - k + 1, Len(list))

RECURSIVE ChunkLoopNoFinal(_, _, _, _, _, _, _)
(* the chunking loop without the final chunk *)
ChunkLoopNoFinal(sentences, i, chunks, current_chunk, current_word_count, chunk_size, overlap) ==
    IF i > Len(sentences) THEN chunks
    ELSE LET sentence == <<sentences[i]>>
             sentence_words == Words(sentence)
         IN  IF current_word_count + sentence_words > chunk_size /\ current_chunk # << >>
             THEN LET chunk_text == Join(current_chunk)
                      chunks2 == IF Words(chunk_text) > 0
                                 THEN Append(chunks, chunk_text) ELSE chunks
                      overlap_text == IF Len(current_chunk) > 1
                                      THEN Join(SliceLast(current_chunk, overlap \div 10))
                                      ELSE << >>
                      kept == IF overlap_text # << >> THEN <<overlap_text>> ELSE << >>
                  IN  ChunkLoopNoFinal(sentences, i + 1, chunks2, Append(kept, sentence),
                                       Words(overlap_text) + sentence_words, chunk_size,
                                       overlap)
             ELSE ChunkLoopNoFinal(sentences, i + 1, chunks, Append(current_chunk, sentence),
                                   current_word_count + sentence_words, chunk_size, overlap)

RECURSIVE ChunkLoop(_, _, _, _, _, _, _)
ChunkLoop(sentences, i, chunks, current_chunk, current_word_count, chunk_size, overlap) ==
    IF i > Len(sentences)
    THEN \* Add final chunk
         IF current_chunk # << >> /\ Words(Join(current_chunk)) > 0
         THEN Append(chunks, Join(current_chunk))
         ELSE chunks
    ELSE LET sentence == <<sentences[i]>>
             sentence_words == Words(sentence)
         IN  IF current_word_count + sentence_words > chunk_size /\ current_chunk # << >>
             THEN LET chunk_text == Join(current_chunk)
                      chunks2 == IF Words(chunk_text) > 0
                                 THEN Append(chunks, chunk_text) ELSE chunks
                      overlap_text == IF Len(current_chunk) > 1
                                      THEN Join(SliceLast(current_chunk, overlap \div 10))
                                      ELSE << >>
                      kept == IF overlap_text # << >> THEN <<overlap_text>> ELSE << >>
                  IN  ChunkLoop(sentences, i + 1, chunks2, Append(kept, sentence),
                                Words(overlap_text) + sentence_words, chunk_size, overlap)
             ELSE ChunkLoop(sentences, i + 1, chunks, Append(current_chunk, sentence),
                            current_word_count + sentence_words, chunk_size, overlap)

(* EmbeddingService.chunk_text *)
ChunkText(text, chunk_size, overlap) ==
    IF text = << >> \/ IsBlank(text) THEN << >>
    ELSE ChunkLoop(text, 1, << >>, << >>, 0, chunk_size, overlap)

-----------------------------------------------------------------------------
(* Embedding service *)

Dims == {"d1", "d2"}

(* What the Ollama embeddings endpoint does on one call of the service: it *)
(* answers every prompt with a vector of dimension d, or it fails.         *)
EmbedOutcomes == Dims \cup {"fail"}

(* EmbeddingService.generate_embeddings: one vector per non-blank text *)
GenerateEmbeddings(texts, d) ==
    LET valid == SelectSeq(texts, LAMBDA t : ~IsBlank(t))
    IN  [i \in 1..Len(valid) |-> d]

(* EmbeddingService.process_content: [ok, chunks, embeddings] *)
ProcessContent(content, e) ==
    LET chunks == ChunkText(content, DefaultChunkSize, DefaultOverlap)
    IN  IF chunks = << >> THEN [ok |-> FALSE, chunks |-> << >>, embeddings |-> << >>]
        ELSE IF e = "fail" THEN [ok |-> FALSE, chunks |-> chunks, embeddings |-> << >>]
        ELSE IF Len(GenerateEmbeddings(chunks, e)) # Len(chunks)
             THEN [ok |-> FALSE, chunks |-> chunks, embeddings |-> << >>]
        ELSE [ok |-> TRUE, chunks |-> chunks, embeddings |-> GenerateEmbeddings(chunks, e)]

-----------------------------------------------------------------------------
(* Vector store (VectorStoreManager over one ChromaDB collection) *)

NoDim == "unset"

(* f"{page_id}_chunk_{i}" for i in range(len(chunks)) *)
ChunkId(page_id, i) == <<page_id, i>>

Ids(idx) == {c.id : c \in idx}

(* collection.get(where={"page_id": page_id}) *)
ChunksOf(idx, page_id) == {c \in idx : c.meta.page_id = page_id}

(* the metadata list without the padding loop *)
StampMetadataNoPad(metadata, n, page_id, title) ==
    [i \in 1..Len(metadata) |->
        [page_id |-> page_id, chunk_index |-> i - 1, title |-> title] @@ metadata[i]]

(* the metadata list after the padding loop and the page_id/chunk_index/title loop *)
StampMetadata(metadata, n, page_id, title) ==
    LET padded == IF Len(metadata) < n
                  THEN metadata \o [i \in 1..(n - Len(metadata)) |-> << >>]
                  ELSE metadata
    IN  [i \in 1..Len(padded) |->
            [page_id |-> page_id, chunk_index |-> i - 1, title |-> title] @@ padded[i]]

(* collection.add(ids, embeddings, metadatas, documents): ChromaDB raises   *)
(* when the four lists differ in length or a vector has not the dimension   *)
(* of the collection (the first add fixes it) and then writes nothing; an   *)
(* id the collection already holds is skipped.                              *)
CollectionAddRaises(d, ids, embeddings, metadatas, documents) ==
    \/ Len(embeddings) # Len(ids)
    \/ Len(metadatas) # Len(ids)
    \/ Len(documents) # Len(ids)
    \/ \E i \in 1..Len(embeddings) : embeddings[i] # embeddings[1]
    \/ d # NoDim /\ \E i \in 1..Len(embeddings) : embeddings[i] # d

CollectionAdd(idx, ids, embeddings, metadatas, documents) ==
    idx \cup {[id |-> ids[i], document |-> documents[i], meta |-> metadatas[i]] :
                 i \in {j \in 1..Len(ids) : ids[j] \notin Ids(idx)}}

(* add_chunks without its two guards, pairing chunks and embeddings like zip() *)
AddChunksZip(idx, d, page_id, chunks, title, embeddings, metadata) ==
    LET n == IF Len(chunks) < Len(embeddings) THEN Len(chunks) ELSE Len(embeddings)
        chunk_ids == [i \in 1..n |-> ChunkId(page_id, i - 1)]
        metas == SubSeq(StampMetadata(metadata, n, page_id, title), 1, n)
    IN  IF n = 0 \/ CollectionAddRaises(d, chunk_ids, SubSeq(embeddings, 1, n), metas,
                                       SubSeq(chunks, 1, n))
        THEN [success |-> FALSE, error |-> "exception", index |-> idx, dim |-> d]
        ELSE [success |-> TRUE, error |-> "",
              index |-> CollectionAdd(idx, chunk_ids, SubSeq(embeddings, 1, n), metas,
                                      SubSeq(chunks, 1, n)),
              dim |-> embeddings[1]]

(* add_chunks over a collection.add that has written the first entry when it raises *)
AddChunksPartial(idx, d, page_id, chunks, title, embeddings, metadata) ==
    IF chunks = << >> \/ embeddings = << >>
    THEN [success |-> FALSE, error |-> "Empty chunks or embeddings", index |-> idx, dim |-> d]
    ELSE IF Len(chunks) # Len(embeddings)
    THEN [success |-> FALSE, error |-> "Chunks and embeddings count mismatch",
          index |-> idx, dim |-> d]
    ELSE LET chunk_ids == [i \in 1..Len(chunks) |-> ChunkId(page_id, i - 1)]
             metas == StampMetadata(metadata, Len(chunks), page_id, title)
         IN  IF CollectionAddRaises(d, chunk_ids, embeddings, metas, chunks)
             THEN [success |-> FALSE, error |-> "exception",
                   index |-> CollectionAdd(idx, SubSeq(chunk_ids, 1, 1), embeddings,
                                           metas, chunks),
                   dim |-> d]
             ELSE [success |-> TRUE, error |-> "",
                   index |-> CollectionAdd(idx, chunk_ids, embeddings, metas, chunks),
                   dim |-> embeddings[1]]

(* VectorStoreManager.add_chunks: [success, error, index, dim] *)
AddChunks(idx, d, page_id, chunks, title, embeddings, metadata) ==
    IF chunks = << >> \/ embeddings = << >>
    THEN [success |-> FALSE, error |-> "Empty chunks or embeddings", index |-> idx, dim |-> d]
    ELSE IF Len(chunks) # Len(embeddings)
    THEN [success |-> FALSE, error |-> "Chunks and embeddings count mismatch",
          index |-> idx, dim |-> d]
    ELSE LET chunk_ids == [i \in 1..Len(chunks) |-> ChunkId(page_id, i - 1)]
             metas == StampMetadata(metadata, Len(chunks), page_id, title)
         IN  IF CollectionAddRaises(d, chunk_ids, embeddings, metas, chunks)
             THEN [success |-> FALSE, error |-> "exception", index |-> idx, dim |-> d]
             ELSE [success |-> TRUE, error |-> "",
                   index |-> CollectionAdd(idx, chunk_ids, embeddings, metas, chunks),
                   dim |-> embeddings[1]]

(* delete_chunks whose delete is not restricted to the ids it got *)
DeleteChunksAll(idx, page_id) ==
    [success |-> TRUE,
     deleted_chunks |-> Cardinality(ChunksOf(idx, page_id)),
     index |-> IF ChunksOf(idx, page_id) = {} THEN idx ELSE {}]

(* delete_chunks that deletes nothing *)
DeleteChunksKeeps(idx, page_id) ==
    [success |-> TRUE, deleted_chunks |-> 0, index |-> idx]

(* VectorStoreManager.delete_chunks: [success, deleted_chunks, index] *)
DeleteChunks(idx, page_id) ==
    [success |-> TRUE,
     deleted_chunks |-> Cardinality(ChunksOf(idx, page_id)),
     index |-> idx \ ChunksOf(idx, page_id)]

(* Cosine distances of stored vectors to a query vector, in Unit *)
Distances == {0, Unit \div 2, (3 * Unit) \div 2}

(* max(0, min(1, 1 - distance)) *)
Similarity(distance) ==
    LET similarity == Unit - distance
        capped == IF similarity < Unit THEN similarity ELSE Unit
    IN  IF capped > 0 THEN capped ELSE 0

(* where-clause of collection.query: equality on every key of filters *)
Matches(c, filters) ==
    \A k \in DOMAIN filters : k \in DOMAIN c.meta /\ c.meta[k] = filters[k]

(* nearest first; entries at the same distance in the order of their ids *)
Nearer(a, b, dist) ==
    \/ dist[a.id] < dist[b.id]
    \/ /\ dist[a.id] = dist[b.id]
       /\ \/ a.id[1] < b.id[1]
          \/ a.id[1] = b.id[1] /\ a.id[2] < b.id[2]

RECURSIVE Ranked(_, _)
Ranked(cs, dist) ==
    IF cs = {} THEN << >>
    ELSE LET first == CHOOSE a \in cs : \A b \in cs \ {a} : Nearer(a, b, dist)
         IN  <<first>> \o Ranked(cs \ {first}, dist)

(* collection.query(query_embeddings, n_results, where) *)
CollectionQuery(idx, n_results, filters, dist) ==
    LET all == Ranked({c \in idx : Matches(c, filters)}, dist)
    IN  SubSeq(all, 1, IF Len(all) < n_results THEN Len(all) ELSE n_results)

(* VectorStoreManager.search: the formatted results; [] when ChromaDB raises *)
VectorSearch(idx, d, query_embedding, limit, filters, dist) ==
    IF d # NoDim /\ query_embedding # d THEN << >>
    ELSE LET found == CollectionQuery(idx, limit, filters, dist)
         IN  [i \in 1..Len(found) |->
                 [chunk_id |-> found[i].id,
                  content |-> found[i].document,
                  similarity_score |-> Similarity(dist[found[i].id]),
                  metadata |-> found[i].meta]]

-----------------------------------------------------------------------------
(* Page repository (KBPageService) *)

PageIds == 1..MaxPages
NoId == 0

Has(r, f) == f \in DOMAIN r

(* value or default, for a string field that may be None or "" *)
StrOr(r, f, default) == IF Has(r, f) /\ r[f] # "" THEN r[f] ELSE default

(* value or default, for a list field that may be None or [] *)
ListOr(r, f, default) == IF Has(r, f) /\ r[f] # << >> THEN r[f] ELSE default

(* r restricted to the fields of fs it has: the optional fields that are set *)
Only(r, fs) == [f \in (DOMAIN r) \cap fs |-> r[f]]

RECURSIVE JoinTags(_)
(* ",".join(tags) *)
JoinTags(tags) ==
    IF tags = << >> THEN << >>
    ELSE IF Len(tags) = 1 THEN tags
    ELSE <<Head(tags), ",">> \o JoinTags(Tail(tags))

(* KBPageCreate values the create operation is called with *)
CreateInputs ==
    { [title |-> "T1", content |-> TextB, category |-> "agent", mission_id |-> "M1",
       country |-> "DE", tags |-> <<"t1">>, visibility |-> "public", author |-> "admin"],
      [title |-> "T2", content |-> TextA, category |-> "technician",
       tags |-> << >>, visibility |-> "private", author |-> "admin"],
      [title |-> "T2", content |-> Whitespace, category |-> "technician",
       tags |-> << >>, visibility |-> "public", author |-> "admin"] }

(* KBPageUpdate values the update operation is called with *)
UpdateInputs ==
    { [content |-> TextA],
      [content |-> TextB],
      [title |-> "T3", tags |-> <<"t2">>, visibility |-> "private"],
      [content |-> Whitespace, title |-> "T3", tags |-> <<"t2">>, visibility |-> "private"],
      [content |-> EmptyString, title |-> "", tags |-> << >>] }

(* the chunk metadata create_page builds *)
CreateMetadata(page_id, page_data, n) ==
    [i \in 1..n |->
        [page_id |-> page_id,
         category |-> page_data.category,
         mission_id |-> StrOr(page_data, "mission_id", ""),
         country |-> StrOr(page_data, "country", ""),
         visibility |-> page_data.visibility,
         author |-> page_data.author,
         tags |-> JoinTags(page_data.tags)]]

(* create_page that leaves the status alone when the index write fails *)
CreatePageNoErrorStatus(page_data, e) ==
    LET pc == ProcessContent(page_data.content, e)
        page_id == nextId
        page_doc == [title |-> page_data.title, content |-> page_data.content,
                     category |-> page_data.category, tags |-> page_data.tags,
                     visibility |-> page_data.visibility, author |-> page_data.author,
                     status |-> "indexing", chunk_count |-> Len(pc.chunks)]
                    @@ Only(page_data, {"mission_id", "country"})
        vector_result == AddChunks(index, dim, page_id, pc.chunks, page_data.title,
                                   pc.embeddings,
                                   CreateMetadata(page_id, page_data, Len(pc.chunks)))
    IN  IF ~pc.ok
        THEN /\ out' = [op |-> "create", success |-> FALSE, inserted |-> NoId,
                        error |-> "Failed to process content"]
             /\ UNCHANGED <<pages, index, dim, nextId>>
        ELSE /\ nextId <= MaxPages
             /\ nextId' = nextId + 1
             /\ index' = vector_result.index
             /\ dim' = vector_result.dim
             /\ pages' = (page_id :> [page_doc EXCEPT !.status =
                             IF vector_result.success THEN "indexed" ELSE "indexing"]) @@ pages
             /\ out' = IF ~vector_result.success
                       THEN [op |-> "create", success |-> FALSE, inserted |-> page_id,
                             error |-> "Failed to index chunks"]
                       ELSE [op |-> "create", success |-> TRUE, inserted |-> page_id,
                             page_id |-> page_id, chunks_created |-> Len(pc.chunks),
                             title |-> page_data.title]

(* KBPageService.create_page *)
CreatePage(page_data, e) ==
    LET pc == ProcessContent(page_data.content, e)
        page_id == nextId
        page_doc == [title |-> page_data.title, content |-> page_data.content,
                     category |-> page_data.category, tags |-> page_data.tags,
                     visibility |-> page_data.visibility, author |-> page_data.author,
                     status |-> "indexing", chunk_count |-> Len(pc.chunks)]
                    @@ Only(page_data, {"mission_id", "country"})
        vector_result == AddChunks(index, dim, page_id, pc.chunks, page_data.title,
                                   pc.embeddings,
                                   CreateMetadata(page_id, page_data, Len(pc.chunks)))
    IN  IF ~pc.ok
        THEN /\ out' = [op |-> "create", success |-> FALSE, inserted |-> NoId,
                        error |-> "Failed to process content"]
             /\ UNCHANGED <<pages, index, dim, nextId>>
        ELSE /\ nextId <= MaxPages
             /\ nextId' = nextId + 1
             /\ index' = vector_result.index
             /\ dim' = vector_result.dim
             /\ IF ~vector_result.success
                THEN /\ pages' = (page_id :> [page_doc EXCEPT !.status = "error"]) @@ pages
                     /\ out' = [op |-> "create", success |-> FALSE, inserted |-> page_id,
                                error |-> "Failed to index chunks"]
                ELSE /\ pages' = (page_id :> [page_doc EXCEPT !.status = "indexed"]) @@ pages
                     /\ out' = [op |-> "create", success |-> TRUE, inserted |-> page_id,
                                page_id |-> page_id, chunks_created |-> Len(pc.chunks),
                                title |-> page_data.title]

(* the chunk metadata taking the category from the update, which has none *)
UpdateMetadataFromUpdate(page_id, existing_page, update_data, n) ==
    [i \in 1..n |->
        [page_id |-> page_id,
         category |-> StrOr(update_data, "category", ""),
         mission_id |-> StrOr(existing_page, "mission_id", ""),
         country |-> StrOr(existing_page, "country", ""),
         visibility |-> StrOr(update_data, "visibility", existing_page.visibility),
         author |-> existing_page.author,
         tags |-> JoinTags(ListOr(update_data, "tags", existing_page.tags))]]

(* the chunk metadata update_page builds *)
UpdateMetadata(page_id, existing_page, update_data, n) ==
    [i \in 1..n |->
        [page_id |-> page_id,
         category |-> existing_page.category,
         mission_id |-> StrOr(existing_page, "mission_id", ""),
         country |-> StrOr(existing_page, "country", ""),
         visibility |-> StrOr(update_data, "visibility", existing_page.visibility),
         author |-> existing_page.author,
         tags |-> JoinTags(ListOr(update_data, "tags", existing_page.tags))]]

(* the $set document without the content *)
UpdateFieldsNoContent(update_data) ==
    [f \in {g \in {"title", "visibility"} : Has(update_data, g) /\ update_data[g] # ""}
           \cup {g \in {"tags"} : Has(update_data, g)}
        |-> update_data[f]]

(* the $set document update_page builds *)
UpdateFields(update_data) ==
    [f \in {g \in {"title", "visibility"} : Has(update_data, g) /\ update_data[g] # ""}
           \cup {g \in {"content"} : Has(update_data, g) /\ update_data[g] # << >>}
           \cup {g \in {"tags"} : Has(update_data, g)}
        |-> update_data[f]]

(* update_page that re-indexes whenever the update carries content *)
UpdatePageAlwaysReindex(page_id, update_data, e) ==
    IF page_id \notin DOMAIN pages
    THEN /\ out' = [op |-> "update", page_id |-> page_id, req |-> update_data,
                    success |-> FALSE,
                    error |-> "Page not found"]
         /\ UNCHANGED <<pages, index, dim, nextId>>
    ELSE LET existing_page == pages[page_id]
             reindex == /\ Has(update_data, "content")
                        /\ update_data.content # << >>
             deleted == DeleteChunks(index, page_id)
             pc == ProcessContent(update_data.content, e)
             title == StrOr(update_data, "title", existing_page.title)
             vector_result == AddChunks(deleted.index, dim, page_id, pc.chunks, title,
                                        pc.embeddings,
                                        UpdateMetadata(page_id, existing_page, update_data,
                                                       Len(pc.chunks)))
             update_fields == UpdateFields(update_data)
         IN  IF reindex /\ ~pc.ok
             THEN /\ index' = deleted.index
                  /\ out' = [op |-> "update", page_id |-> page_id, req |-> update_data,
                             success |-> FALSE,
                             error |-> "Failed to process content"]
                  /\ UNCHANGED <<pages, dim, nextId>>
             ELSE IF reindex /\ ~vector_result.success
             THEN /\ index' = vector_result.index
                  /\ dim' = vector_result.dim
                  /\ out' = [op |-> "update", page_id |-> page_id, req |-> update_data,
                             success |-> FALSE,
                             error |-> "Failed to re-index content"]
                  /\ UNCHANGED <<pages, nextId>>
             ELSE /\ index' = IF reindex THEN vector_result.index ELSE index
                  /\ dim' = IF reindex THEN vector_result.dim ELSE dim
                  /\ pages' = [pages EXCEPT ![page_id] = update_fields @@ existing_page]
                  /\ out' = [op |-> "update", page_id |-> page_id, req |-> update_data,
                             success |-> TRUE,
                             reindexed |-> reindex]
                  /\ UNCHANGED nextId

(* KBPageService.update_page *)
UpdatePage(page_id, update_data, e) ==
    IF page_id \notin DOMAIN pages
    THEN /\ out' = [op |-> "update", page_id |-> page_id, req |-> update_data,
                    success |-> FALSE,
                    error |-> "Page not found"]
         /\ UNCHANGED <<pages, index, dim, nextId>>
    ELSE LET existing_page == pages[page_id]
             reindex == /\ Has(update_data, "content")
                        /\ update_data.content # << >>
                        /\ update_data.content # existing_page.content
             deleted == DeleteChunks(index, page_id)
             pc == ProcessContent(update_data.content, e)
             title == StrOr(update_data, "title", existing_page.title)
             vector_result == AddChunks(deleted.index, dim, page_id, pc.chunks, title,
                                        pc.embeddings,
                                        UpdateMetadata(page_id, existing_page, update_data,
                                                       Len(pc.chunks)))
             update_fields == UpdateFields(update_data)
         IN  IF reindex /\ ~pc.ok
             THEN /\ index' = deleted.index
                  /\ out' = [op |-> "update", page_id |-> page_id, req |-> update_data,
                             success |-> FALSE,
                             error |-> "Failed to process content"]
                  /\ UNCHANGED <<pages, dim, nextId>>
             ELSE IF reindex /\ ~vector_result.success
             THEN /\ index' = vector_result.index
                  /\ dim' = vector_result.dim
                  /\ out' = [op |-> "update", page_id |-> page_id, req |-> update_data,
                             success |-> FALSE,
                             error |-> "Failed to re-index content"]
                  /\ UNCHANGED <<pages, nextId>>
             ELSE /\ index' = IF reindex THEN vector_result.index ELSE index
                  /\ dim' = IF reindex THEN vector_result.dim ELSE dim
                  /\ pages' = [pages EXCEPT ![page_id] = update_fields @@ existing_page]
                  /\ out' = [op |-> "update", page_id |-> page_id, req |-> update_data,
                             success |-> TRUE,
                             reindexed |-> reindex]
                  /\ UNCHANGED nextId

(* KBPageService.delete_page *)
DeletePage(page_id) ==
    /\ index' = DeleteChunks(index, page_id).index
    /\ pages' = [p \in (DOMAIN pages) \ {page_id} |-> pages[p]]
    /\ out' = [op |-> "delete", page_id |-> page_id, success |-> TRUE,
               deleted_count |-> IF page_id \in DOMAIN pages THEN 1 ELSE 0]
    /\ UNCHANGED <<dim, nextId>>

-----------------------------------------------------------------------------
(* Retrieval service (KBSearchService) *)

(* What the Ollama generate endpoint does on one call *)
GenOutcomes == {"ok", "http_error", "exception"}

QueryText == <<Piece(9, 5)>>

(* EmbeddingService.embed_query: the vector's dimension, or "fail" when it raises *)
EmbedQuery(query, e) == IF query = << >> \/ IsBlank(query) THEN "fail" ELSE e

(* KBSearchService._generate_summary *)
GenerateSummary(content, g) ==
    IF g = "ok" THEN [kind |-> "generated", of |-> content]
    ELSE [kind |-> "truncated", of |-> content]

(* KBSearchService._extract_matched_points *)
ExtractMatchedPoints(content, query, relevant_chunk, g) ==
    IF g = "ok" THEN [kind |-> "generated", of |-> relevant_chunk]
    ELSE [kind |-> "truncated", of |-> relevant_chunk]

(* set(page.get("tags", [])) & set(query.tags) *)
TagsIntersect(page_tags, query_tags) ==
    \E i \in 1..Len(page_tags), j \in 1..Len(query_tags) : page_tags[i] = query_tags[j]

(* the result loop without the seen_pages check *)
SkippedNoSeen(chunk, query, seen_pages, docs) ==
    LET metadata == chunk.metadata
        page_id == metadata.page_id
    IN  \/ StrOr(query, "country", "") # "" /\
               (~Has(metadata, "country") \/ metadata.country # query.country)
        \/ page_id \notin DOMAIN docs
        \/ StrOr(query, "visibility", "") # "" /\
               docs[page_id].visibility # query.visibility
        \/ ListOr(query, "tags", << >>) # << >> /\
               ~TagsIntersect(docs[page_id].tags, query.tags)

(* the result loop without the tags check *)
SkippedNoTags(chunk, query, seen_pages, docs) ==
    LET metadata == chunk.metadata
        page_id == metadata.page_id
    IN  \/ page_id \in seen_pages
        \/ StrOr(query, "country", "") # "" /\
               (~Has(metadata, "country") \/ metadata.country # query.country)
        \/ page_id \notin DOMAIN docs
        \/ StrOr(query, "visibility", "") # "" /\
               docs[page_id].visibility # query.visibility

(* the checks of the result loop that skip a hit *)
Skipped(chunk, query, seen_pages, docs) ==
    LET metadata == chunk.metadata
        page_id == metadata.page_id
    IN  \/ page_id \in seen_pages
        \/ StrOr(query, "country", "") # "" /\
               (~Has(metadata, "country") \/ metadata.country # query.country)
        \/ page_id \notin DOMAIN docs
        \/ StrOr(query, "visibility", "") # "" /\
               docs[page_id].visibility # query.visibility
        \/ ListOr(query, "tags", << >>) # << >> /\
               ~TagsIntersect(docs[page_id].tags, query.tags)

(* the SearchResult built for a hit; g is what the generate endpoint does on *)
(* the summary call and on the matched-points call made for this hit        *)
MakeResult(chunk, query, docs, g) ==
    LET page_id == chunk.metadata.page_id
        page == docs[page_id]
    IN  [document_id |-> page_id,
         title |-> page.title,
         long_summary |-> GenerateSummary(page.content, g.summary),
         matched_points |-> ExtractMatchedPoints(page.content, query.query, chunk.content,
                                                 g.points),
         category |-> page.category,
         tags |-> page.tags,
         similarity_score |-> chunk.similarity_score,
         author |-> page.author]
        @@ Only(page, {"mission_id", "country"})

RECURSIVE ResultLoopNoBreak(_, _, _, _, _, _, _, _)
(* the result loop without the break at limit results *)
ResultLoopNoBreak(chunks, i, query, limit, results, seen_pages, docs, gs) ==
    IF i > Len(chunks) THEN results
    ELSE IF Skipped(chunks[i], query, seen_pages, docs)
    THEN ResultLoopNoBreak(chunks, i + 1, query, limit, results, seen_pages, docs, gs)
    ELSE ResultLoopNoBreak(chunks, i + 1, query, limit,
                           Append(results, MakeResult(chunks[i], query, docs, gs[1])),
                           seen_pages \cup {chunks[i].metadata.page_id}, docs, gs)

RECURSIVE ResultLoopAborting(_, _, _, _, _, _, _, _)
(* the result loop ended by the first generate call that fails *)
ResultLoopAborting(chunks, i, query, limit, results, seen_pages, docs, gs) ==
    IF i > Len(chunks) THEN results
    ELSE IF Skipped(chunks[i], query, seen_pages, docs)
    THEN ResultLoopAborting(chunks, i + 1, query, limit, results, seen_pages, docs, gs)
    ELSE IF gs[Len(results) + 1].summary # "ok" \/ gs[Len(results) + 1].points # "ok"
    THEN results
    ELSE LET results2 == Append(results, MakeResult(chunks[i], query, docs,
                                                    gs[Len(results) + 1]))
         IN  IF Len(results2) >= limit THEN results2
             ELSE ResultLoopAborting(chunks, i + 1, query, limit, results2,
                                     seen_pages \cup {chunks[i].metadata.page_id}, docs, gs)

RECURSIVE ResultLoop(_, _, _, _, _, _, _, _)
(* for chunk in chunks: ... of KBSearchService.search; gs[n] is what the    *)
(* generate endpoint does on the two calls made for the n-th result         *)
ResultLoop(chunks, i, query, limit, results, seen_pages, docs, gs) ==
    IF i > Len(chunks) THEN results
    ELSE IF Skipped(chunks[i], query, seen_pages, docs)
    THEN ResultLoop(chunks, i + 1, query, limit, results, seen_pages, docs, gs)
    ELSE LET results2 == Append(results, MakeResult(chunks[i], query, docs,
                                                    gs[Len(results) + 1]))
         IN  IF Len(results2) >= limit THEN results2
             ELSE ResultLoop(chunks, i + 1, query, limit, results2,
                             seen_pages \cup {chunks[i].metadata.page_id}, docs, gs)

(* search without the category pre-filter *)
VectorFiltersDropped(query) == << >>

(* the filters search hands to the vector store *)
VectorFilters(query) == Only(query, {"category"})

(* KBSearchService.search: [embed_failed, chunks, results] *)
SearchPages(docs, idx, d, query, limit, e, dist, gs) ==
    LET query_embedding == EmbedQuery(query.query, e)
        chunks == VectorSearch(idx, d, query_embedding, limit * 3, VectorFilters(query), dist)
    IN  IF query_embedding = "fail"
        THEN [embed_failed |-> TRUE, chunks |-> << >>, results |-> << >>]
        ELSE [embed_failed |-> FALSE, chunks |-> chunks,
              results |-> ResultLoop(chunks, 1, query, limit, << >>, {}, docs, gs)]

-----------------------------------------------------------------------------
(* Synthesis services (KBChatService, KBRAGService) *)

RECURSIVE SumScores(_)
(* sum(doc.similarity_score for doc in docs) *)
SumScores(docs) ==
    IF docs = << >> THEN 0 ELSE Head(docs).similarity_score + SumScores(Tail(docs))

(* the confidence taken from the best match alone *)
ConfidenceOfBest(docs) == Head(docs).similarity_score

(* min(1.0, sum(scores) / len(docs)) *)
Confidence(docs) ==
    LET avg_confidence == SumScores(docs) \div Len(docs)
    IN  IF avg_confidence < Unit THEN avg_confidence ELSE Unit

(* str.lower() on the role and category strings of the model *)
Lower(role) ==
    CASE role = "AGENT" -> "agent"
      [] role = "Technician" -> "technician"
      [] OTHER -> role

(* the role-to-category branch with the technician category as its else *)
RoleCategoryDefault(user_role) ==
    IF Lower(user_role) = "agent" THEN "agent" ELSE "technician"

(* the role-to-category branch of chat_query; "none" for the rejected roles *)
RoleCategory(user_role) ==
    IF Lower(user_role) = "agent" THEN "agent"
    ELSE IF Lower(user_role) = "technician" THEN "technician"
    ELSE "none"

(* the SearchQuery chat_query builds *)
ChatSearchQuery(chat_req) ==
    [query |-> chat_req.query, category |-> RoleCategory(chat_req.user_role)]
    @@ Only(chat_req, {"tags"})

(* chat_query without the early return for an empty result list *)
ChatResponseNoCanned(chat_req, matched_documents, ga) ==
    IF ga = "exception"
    THEN [answer |-> "Error generating response", matched_documents |-> matched_documents,
          confidence |-> 0]
    ELSE [answer |-> IF ga = "ok" THEN "generated" ELSE "Error: Ollama API returned status",
          matched_documents |-> matched_documents,
          confidence |-> IF matched_documents = << >> THEN 0
                         ELSE Confidence(matched_documents)]

(* the ChatQueryResponse of chat_query, given what search returned and *)
(* what the generate call did                                          *)
ChatResponse(chat_req, matched_documents, ga) ==
    IF matched_documents = << >>
    THEN [answer |-> "No relevant documents found", matched_documents |-> << >>,
          confidence |-> 0]
    ELSE IF ga = "exception"
    THEN [answer |-> "Error generating response", matched_documents |-> matched_documents,
          confidence |-> 0]
    ELSE [answer |-> IF ga = "ok" THEN "generated" ELSE "Error: Ollama API returned status",
          matched_documents |-> matched_documents,
          confidence |-> Confidence(matched_documents)]

(* KBChatService.chat_query *)
ChatQuery(chat_req, e, dist, gs, ga) ==
    LET found == SearchPages(pages, index, dim, ChatSearchQuery(chat_req), chat_req.limit,
                             e, dist, gs)
    IN  /\ out' = IF RoleCategory(chat_req.user_role) = "none"
                  THEN [op |-> "chat", req |-> chat_req, searched |-> FALSE, raised |-> FALSE,
                        response |-> [answer |-> "Invalid user role",
                                      matched_documents |-> << >>, confidence |-> 0],
                        generate_calls |-> 0]
                  ELSE [op |-> "chat", req |-> chat_req, searched |-> TRUE, raised |-> FALSE,
                        embed_failed |-> found.embed_failed, chunks |-> found.chunks,
                        retrieved |-> found.results, gen |-> ga,
                        response |-> ChatResponse(chat_req, found.results, ga),
                        generate_calls |-> IF found.results = << >> THEN 0
                                           ELSE 2 * Len(found.results) + 1]
        /\ UNCHANGED <<pages, index, dim, nextId>>

(* the SearchQuery query builds *)
RagSearchQuery(query_req) ==
    [query |-> query_req.question] @@ Only(query_req, {"tags", "visibility"})

(* KBRAGService.query: reading s.chunk_snippet of a SearchResult raises *)
RagQuery(query_req, e, dist, gs) ==
    LET found == SearchPages(pages, index, dim, RagSearchQuery(query_req), query_req.limit,
                             e, dist, gs)
    IN  /\ out' = IF found.results = << >>
                  THEN [op |-> "query", req |-> query_req, raised |-> FALSE,
                        embed_failed |-> found.embed_failed, retrieved |-> found.results,
                        response |-> [answer |-> "No relevant information found",
                                      sources |-> << >>, confidence |-> 0],
                        generate_calls |-> 0]
                  ELSE [op |-> "query", req |-> query_req, raised |-> TRUE,
                        embed_failed |-> found.embed_failed, retrieved |-> found.results,
                        generate_calls |-> 2 * Len(found.results)]
        /\ UNCHANGED <<pages, index, dim, nextId>>

(* KBSearchService.search called by the search route *)
SearchCall(query, limit, e, dist, gs) ==
    LET found == SearchPages(pages, index, dim, query, limit, e, dist, gs)
    IN  /\ out' = [op |-> "search", req |-> query, limit |-> limit, raised |-> FALSE,
                   embed_failed |-> found.embed_failed, chunks |-> found.chunks,
                   results |-> found.results,
                   generate_calls |-> 2 * Len(found.results),
                   gen |-> SubSeq(gs, 1, Len(found.results))]
        /\ UNCHANGED <<pages, index, dim, nextId>>

-----------------------------------------------------------------------------
(* The search route (GET /search) *)

(* the category the route resolves its parameter to: a record with the    *)
(* field category, or the empty record for None                           *)
RouteCategory(params) ==
    IF Has(params, "category") /\ params.category # ""
    THEN IF Lower(params.category) = "agent" THEN [category |-> "agent"]
         ELSE IF Lower(params.category) = "technician" THEN [category |-> "technician"]
         ELSE << >>
    ELSE << >>

(* the SearchQuery the route builds *)
RouteSearchQuery(params) ==
    [query |-> params.q] @@ RouteCategory(params)
    @@ Only(params, {"country", "tags", "visibility"})

(* semantic_search: FastAPI rejects an empty q (min_length=1) with status  *)
(* 422; otherwise the route calls search and returns what it returns       *)
SemanticSearch(params, limit, e, dist, gs) ==
    LET found == SearchPages(pages, index, dim, RouteSearchQuery(params), limit, e, dist, gs)
    IN  /\ out' = IF params.q = << >>
                  THEN [op |-> "semantic_search", params |-> params, limit |-> limit,
                        rejected |-> TRUE, searched |-> FALSE, results |-> << >>]
                  ELSE [op |-> "semantic_search", params |-> params, limit |-> limit,
                        rejected |-> FALSE, searched |-> TRUE,
                        req |-> RouteSearchQuery(params),
                        embed_failed |-> found.embed_failed, chunks |-> found.chunks,
                        results |-> found.results]
        /\ UNCHANGED <<pages, index, dim, nextId>>

-----------------------------------------------------------------------------
(* The system: any sequence of handler calls, one at a time *)

(* the two clients whose update_page calls may be in progress together *)
Writers == {"w1", "w2"}

Init ==
    /\ pages = << >>
    /\ index = {}
    /\ dim = NoDim
    /\ nextId = 1
    /\ out = [op |-> "none"]
    /\ calls = [w \in Writers |-> [pc |-> "idle"]]

(* no call in progress: the last response has been delivered *)
Idle == out.op = "none"

Create ==
    /\ Idle
    /\ \E page_data \in CreateInputs, e \in EmbedOutcomes : CreatePage(page_data, e)
    /\ UNCHANGED calls

Update ==
    /\ Idle
    /\ \E page_id \in PageIds, update_data \in UpdateInputs, e \in EmbedOutcomes :
           UpdatePage(page_id, update_data, e)
    /\ UNCHANGED calls

Delete ==
    /\ Idle
    /\ \E page_id \in PageIds : DeletePage(page_id)
    /\ UNCHANGED calls

(* the caller takes the response *)
Return ==
    /\ ~Idle
    /\ out' = [op |-> "none"]
    /\ UNCHANGED <<pages, index, dim, nextId, calls>>

Next == Create \/ Update \/ Delete \/ Return

Spec == Init /\ [][Next]_vars

-----------------------------------------------------------------------------
(* The read path over a repository filled by create, update and delete *)

Limits == 1..MaxLimit

(* SearchQuery values the search operation is called with *)
SearchInputs ==
    { [query |-> QueryText],
      [query |-> QueryText, category |-> "agent"],
      [query |-> QueryText, category |-> "technician", visibility |-> "private"],
      [query |-> QueryText, country |-> "DE", tags |-> <<"t1">>],
      [query |-> Whitespace] }

(* ChatQueryRequest values the chat operation is called with *)
ChatInputs ==
    { [query |-> q, user_role |-> r, limit |-> l] :
          q \in {QueryText}, r \in {"agent", "Technician", "admin"}, l \in Limits }
    \cup { [query |-> Whitespace, user_role |-> "AGENT", limit |-> 1],
           [query |-> QueryText, user_role |-> "agent", limit |-> 1, tags |-> <<"t2">>] }

(* QueryRequest values the query operation is called with *)
RagInputs ==
    { [question |-> QueryText, limit |-> 1],
      [question |-> QueryText, limit |-> 1, category |-> "agent"],
      [question |-> QueryText, limit |-> 2, visibility |-> "public", tags |-> <<"t1">>],
      [question |-> Whitespace, limit |-> 1] }

(* query parameters GET /search is called with *)
RouteInputs ==
    { [q |-> QueryText, category |-> "AGENT"],
      [q |-> QueryText, category |-> "admin"],
      [q |-> QueryText, category |-> "", visibility |-> "public"],
      [q |-> EmptyString, category |-> "agent"] }

(* the distances of the stored vectors to a query vector *)
Geometries == [Ids(index) -> Distances]

(* the pages the read path is exercised on *)
ReadCreateInputs == {page_data \in CreateInputs : ~IsBlank(page_data.content)}
ReadUpdateInputs == {update_data \in UpdateInputs : ~Has(update_data, "content")}

CreateR ==
    /\ Idle
    /\ \E page_data \in ReadCreateInputs, e \in EmbedOutcomes : CreatePage(page_data, e)
    /\ UNCHANGED calls

UpdateR ==
    /\ Idle
    /\ \E page_id \in PageIds, update_data \in ReadUpdateInputs :
           UpdatePage(page_id, update_data, "fail")
    /\ UNCHANGED calls

(* the generate endpoint doing the same on every call of one search *)
Uniform(g) == [n \in Limits |-> [summary |-> g, points |-> g]]

Search ==
    /\ Idle
    /\ \E query \in SearchInputs, limit \in Limits, e \in EmbedOutcomes,
          dist \in Geometries, g \in GenOutcomes :
           SearchCall(query, limit, e, dist, Uniform(g))
    /\ UNCHANGED calls

Chat ==
    /\ Idle
    /\ \E chat_req \in ChatInputs, e \in EmbedOutcomes, dist \in Geometries,
          g \in GenOutcomes, ga \in GenOutcomes :
           ChatQuery(chat_req, e, dist, Uniform(g), ga)
    /\ UNCHANGED calls

Query ==
    /\ Idle
    /\ \E query_req \in RagInputs, e \in EmbedOutcomes, dist \in Geometries,
          g \in GenOutcomes :
           RagQuery(query_req, e, dist, Uniform(g))
    /\ UNCHANGED calls

SearchRoute ==
    /\ Idle
    /\ \E params \in RouteInputs, limit \in Limits, e \in EmbedOutcomes,
          dist \in Geometries, g \in GenOutcomes :
           SemanticSearch(params, limit, e, dist, Uniform(g))
    /\ UNCHANGED calls

NextRead ==
    CreateR \/ UpdateR \/ Delete \/ Search \/ SearchRoute \/ Chat \/ Query \/ Return

SpecRead == Init /\ [][NextRead]_vars

-----------------------------------------------------------------------------
(* Search while the generate endpoint answers or fails call by call *)

(* what the endpoint does on the summary call and on the matched-points *)
(* call made for one result                                             *)
GenPairs == [summary : GenOutcomes, points : GenOutcomes]

DegradeInputs ==
    { [query |-> QueryText],
      [query |-> QueryText, category |-> "agent"] }

SearchDegraded ==
    /\ Idle
    /\ \E query \in DegradeInputs, limit \in Limits, e \in EmbedOutcomes,
          dist \in Geometries, gs \in [Limits -> GenPairs] :
           SearchCall(query, limit, e, dist, gs)
    /\ UNCHANGED calls

NextDegrade == CreateR \/ Delete \/ SearchDegraded \/ Return

SpecDegrade == Init /\ [][NextDegrade]_vars

-----------------------------------------------------------------------------
(* Search under every combination of the four filters of SearchQuery *)

FilterInputs ==
    { [query |-> QueryText] @@ c @@ r @@ v @@ t :
          c \in {<< >>, [category |-> "agent"], [category |-> "technician"]},
          r \in {<< >>, [country |-> "DE"]},
          v \in {<< >>, [visibility |-> "public"], [visibility |-> "private"]},
          t \in {<< >>, [tags |-> <<"t1">>], [tags |-> <<"t2", "t1">>]} }

SearchFiltered ==
    /\ Idle
    /\ \E query \in FilterInputs, limit \in Limits, e \in Dims, dist \in Geometries :
           SearchCall(query, limit, e, dist, Uniform("ok"))
    /\ UNCHANGED calls

NextFilter == CreateR \/ UpdateR \/ SearchFiltered \/ Return

SpecFilter == Init /\ [][NextFilter]_vars

-----------------------------------------------------------------------------
(* The segmenter called directly: chunk_text(text, chunk_size, overlap) *)

MaxSentences == 4

(* words of a sentence; re.split leaves a piece without words only after *)
(* the last sentence (white space at the end of the text)                *)
SegWords == {1, 3}

SegTexts ==
    UNION { { [i \in 1..n |-> Piece(i, ws[i])] :
                ws \in {v \in [1..n -> SegWords \cup {0}] :
                            \A i \in 1..n : v[i] = 0 => i = n} } :
            n \in 1..MaxSentences }

SegSizes == {2, 4}

SegOverlaps == {0, 5, 10, 20, 100}

ChunkTextCall ==
    /\ Idle
    /\ \E text \in SegTexts, chunk_size \in SegSizes, overlap \in SegOverlaps :
           out' = [op |-> "chunk_text", text |-> text, chunk_size |-> chunk_size,
                   overlap |-> overlap, chunks |-> ChunkText(text, chunk_size, overlap)]
    /\ UNCHANGED <<pages, index, dim, nextId, calls>>

NextSeg == ChunkTextCall \/ Return

SpecSeg == Init /\ [][NextSeg]_vars

-----------------------------------------------------------------------------
(* The vector store called directly (its public methods) *)

ChunkTexts == {<< >>, ChunkText(TextA, DefaultChunkSize, DefaultOverlap),
               ChunkText(TextB, DefaultChunkSize, DefaultOverlap)}

EmbeddingLists == {<< >>, <<"d1">>, <<"d1", "d1">>, <<"d2", "d2">>, <<"d1", "d2">>}

MetaOne == [category |-> "agent", country |-> "DE", visibility |-> "public"]

(* metadata=None and metadata=[] both reach the padding loop as [] *)
MetadataLists == {<< >>, <<MetaOne>>, <<MetaOne, MetaOne>>, <<MetaOne, MetaOne, MetaOne>>}

AddChunksCall ==
    /\ Idle
    /\ \E page_id \in PageIds, chunks \in ChunkTexts, embeddings \in EmbeddingLists,
          metadata \in MetadataLists :
          LET r == AddChunks(index, dim, page_id, chunks, "T1", embeddings, metadata)
          IN  /\ index' = r.index
              /\ dim' = r.dim
              /\ out' = [op |-> "add_chunks", page_id |-> page_id, chunks |-> chunks,
                         embeddings |-> embeddings, metadata |-> metadata,
                         success |-> r.success, error |-> r.error]
    /\ UNCHANGED <<pages, nextId, calls>>

DeleteChunksCall ==
    /\ Idle
    /\ \E page_id \in PageIds :
          LET r == DeleteChunks(index, page_id)
          IN  /\ index' = r.index
              /\ out' = [op |-> "delete_chunks", page_id |-> page_id,
                         success |-> r.success, deleted_chunks |-> r.deleted_chunks]
    /\ UNCHANGED <<pages, dim, nextId, calls>>

NextVS == AddChunksCall \/ DeleteChunksCall \/ Return

SpecVS == Init /\ [][NextVS]_vars

-----------------------------------------------------------------------------
(* update_page calls in progress together.  A coroutine gives up control   *)
(* at its awaits only: at get_page (find_one) and at update_one.  The code *)
(* between the two awaits runs without interruption; the write of          *)
(* update_one reaches MongoDB some time after the coroutine has issued it, *)
(* in any order with the steps of the other coroutine.                     *)

(* KBPageUpdate values of the concurrent calls *)
RaceUpdateInputs == {[content |-> TextA], [content |-> TextC]}

(* the page the concurrent calls are about: the first one created *)
RacePages == {1}

(* a request arrives: update_page(page_id, update_data) is called *)
UpdateCall(w) ==
    /\ Idle
    /\ calls[w].pc = "idle"
    /\ \E page_id \in RacePages, update_data \in RaceUpdateInputs :
           calls' = [calls EXCEPT ![w] = [pc |-> "get_page", page_id |-> page_id,
                                          update_data |-> update_data]]
    /\ UNCHANGED <<pages, index, dim, nextId, out>>

(* existing_page = await self.get_page(page_id) *)
UpdateGetPage(w) ==
    LET c == calls[w]
    IN  /\ c.pc = "get_page"
        /\ calls' = [calls EXCEPT ![w] =
               IF c.page_id \notin DOMAIN pages
               THEN [pc |-> "done", page_id |-> c.page_id, update_data |-> c.update_data,
                     success |-> FALSE, error |-> "Page not found"]
               ELSE [pc |-> "reindex", page_id |-> c.page_id, update_data |-> c.update_data,
                     existing_page |-> pages[c.page_id]]]
        /\ UNCHANGED <<pages, index, dim, nextId, out>>

(* the re-index that deletes the old chunks and does not add the new ones *)
UpdateReindexNoAdd(w) ==
    LET c == calls[w]
    IN  /\ c.pc = "reindex"
        /\ LET reindex == /\ Has(c.update_data, "content")
                          /\ c.update_data.content # << >>
                          /\ c.update_data.content # c.existing_page.content
           IN  /\ index' = IF reindex THEN DeleteChunks(index, c.page_id).index ELSE index
               /\ calls' = [calls EXCEPT ![w] =
                      [pc |-> "update_one", page_id |-> c.page_id,
                       update_data |-> c.update_data, reindexed |-> reindex,
                       update_fields |-> UpdateFields(c.update_data)]]
        /\ UNCHANGED <<pages, dim, nextId, out>>

(* from the return of get_page to the call of update_one *)
UpdateReindex(w) ==
    LET c == calls[w]
    IN  /\ c.pc = "reindex"
        /\ \E e \in EmbedOutcomes :
               LET page_id == c.page_id
                   update_data == c.update_data
                   existing_page == c.existing_page
                   reindex == /\ Has(update_data, "content")
                              /\ update_data.content # << >>
                              /\ update_data.content # existing_page.content
                   deleted == DeleteChunks(index, page_id)
                   pc == ProcessContent(update_data.content, e)
                   title == StrOr(update_data, "title", existing_page.title)
                   vector_result == AddChunks(deleted.index, dim, page_id, pc.chunks, title,
                                              pc.embeddings,
                                              UpdateMetadata(page_id, existing_page,
                                                             update_data, Len(pc.chunks)))
               IN  IF reindex /\ ~pc.ok
                   THEN /\ index' = deleted.index
                        /\ dim' = dim
                        /\ calls' = [calls EXCEPT ![w] =
                               [pc |-> "done", page_id |-> page_id,
                                update_data |-> update_data, success |-> FALSE,
                                error |-> "Failed to process content"]]
                   ELSE IF reindex /\ ~vector_result.success
                   THEN /\ index' = vector_result.index
                        /\ dim' = vector_result.dim
                        /\ calls' = [calls EXCEPT ![w] =
                               [pc |-> "done", page_id |-> page_id,
                                update_data |-> update_data, success |-> FALSE,
                                error |-> "Failed to re-index content"]]
                   ELSE /\ index' = IF reindex THEN vector_result.index ELSE index
                        /\ dim' = IF reindex THEN vector_result.dim ELSE dim
                        /\ calls' = [calls EXCEPT ![w] =
                               [pc |-> "update_one", page_id |-> page_id,
                                update_data |-> update_data, reindexed |-> reindex,
                                update_fields |-> UpdateFields(update_data)]]
        /\ UNCHANGED <<pages, nextId, out>>

(* await self.collection.update_one({"_id": page_id}, {"$set": update_fields}) *)
UpdateOne(w) ==
    LET c == calls[w]
    IN  /\ c.pc = "update_one"
        /\ pages' = IF c.page_id \in DOMAIN pages
                     THEN [pages EXCEPT ![c.page_id] = c.update_fields @@ pages[c.page_id]]
                     ELSE pages
        /\ calls' = [calls EXCEPT ![w] =
               [pc |-> "done", page_id |-> c.page_id, update_data |-> c.update_data,
                success |-> TRUE, reindexed |-> c.reindexed]]
        /\ UNCHANGED <<index, dim, nextId, out>>

(* the caller takes the response of update_page *)
UpdateReturn(w) ==
    /\ calls[w].pc = "done"
    /\ calls' = [calls EXCEPT ![w] = [pc |-> "idle"]]
    /\ UNCHANGED <<pages, index, dim, nextId, out>>

(* pages are created while no update is in progress *)
CreateQuiet == CreateR /\ \A w \in Writers : calls[w].pc = "idle"

NextRace ==
    \/ CreateQuiet
    \/ Return
    \/ \E w \in Writers : UpdateCall(w)
    \/ \E w \in Writers : UpdateGetPage(w)
    \/ \E w \in Writers : UpdateReindex(w)
    \/ \E w \in Writers : UpdateOne(w)
    \/ \E w \in Writers : UpdateReturn(w)

SpecRace == Init /\ [][NextRace]_vars

-----------------------------------------------------------------------------
(* create_page and delete_page step by step, like update_page above: one   *)
(* step for the code up to each await and one for the MongoDB write the    *)
(* await waits for.                                                        *)

(* no call of a client is in progress *)
Quiet == \A w \in Writers : calls[w].pc = "idle"

(* create_page up to await insert_one: process_content, page_doc, ObjectId() *)
CreateCall(w) ==
    /\ calls[w].pc = "idle"
    /\ \E page_data \in ReadCreateInputs, e \in EmbedOutcomes :
           LET pc == ProcessContent(page_data.content, e)
               page_doc == [title |-> page_data.title, content |-> page_data.content,
                            category |-> page_data.category, tags |-> page_data.tags,
                            visibility |-> page_data.visibility,
                            author |-> page_data.author,
                            status |-> "indexing", chunk_count |-> Len(pc.chunks)]
                           @@ Only(page_data, {"mission_id", "country"})
           IN  IF ~pc.ok
               THEN /\ calls' = [calls EXCEPT ![w] =
                           [pc |-> "created", success |-> FALSE, inserted |-> NoId,
                            error |-> "Failed to process content"]]
                    /\ UNCHANGED nextId
               ELSE /\ nextId <= MaxPages
                    /\ nextId' = nextId + 1
                    /\ calls' = [calls EXCEPT ![w] =
                           [pc |-> "insert_one", page_id |-> nextId, page_data |-> page_data,
                            page_doc |-> page_doc, chunks |-> pc.chunks,
                            embeddings |-> pc.embeddings]]
    /\ UNCHANGED <<pages, index, dim, out>>

(* result = await self.collection.insert_one(page_doc) *)
CreateInsertOne(w) ==
    LET c == calls[w]
    IN  /\ c.pc = "insert_one"
        /\ pages' = (c.page_id :> c.page_doc) @@ pages
        /\ calls' = [calls EXCEPT ![w] = [c EXCEPT !.pc = "add_chunks"]]
        /\ UNCHANGED <<index, dim, nextId, out>>

(* from the return of insert_one to the call of update_one: add_chunks *)
CreateAddChunks(w) ==
    LET c == calls[w]
        vector_result == AddChunks(index, dim, c.page_id, c.chunks, c.page_data.title,
                                   c.embeddings,
                                   CreateMetadata(c.page_id, c.page_data, Len(c.chunks)))
    IN  /\ c.pc = "add_chunks"
        /\ index' = vector_result.index
        /\ dim' = vector_result.dim
        /\ calls' = [calls EXCEPT ![w] =
               [pc |-> "set_status", page_id |-> c.page_id,
                success |-> vector_result.success, chunks_created |-> Len(c.chunks),
                status |-> IF vector_result.success THEN "indexed" ELSE "error"]]
        /\ UNCHANGED <<pages, nextId, out>>

(* await self.collection.update_one({"_id": ...}, {"$set": {"status": ...}}) *)
CreateSetStatus(w) ==
    LET c == calls[w]
    IN  /\ c.pc = "set_status"
        /\ pages' = IF c.page_id \in DOMAIN pages
                     THEN [pages EXCEPT ![c.page_id].status = c.status]
                     ELSE pages
        /\ calls' = [calls EXCEPT ![w] =
               IF c.success
               THEN [pc |-> "created", success |-> TRUE, inserted |-> c.page_id,
                     chunks_created |-> c.chunks_created]
               ELSE [pc |-> "created", success |-> FALSE, inserted |-> c.page_id,
                     error |-> "Failed to index chunks"]]
        /\ UNCHANGED <<index, dim, nextId, out>>

(* the caller takes the response of create_page *)
CreateReturn(w) ==
    /\ calls[w].pc = "created"
    /\ calls' = [calls EXCEPT ![w] = [pc |-> "idle"]]
    /\ UNCHANGED <<pages, index, dim, nextId, out>>

(* a request arrives: delete_page(page_id) is called *)
DeleteCall(w) ==
    /\ calls[w].pc = "idle"
    /\ \E page_id \in RacePages :
           calls' = [calls EXCEPT ![w] = [pc |-> "delete_chunks", page_id |-> page_id]]
    /\ UNCHANGED <<pages, index, dim, nextId, out>>

(* delete_page that removes the record first and leaves the chunks *)
DeletePageChunksRecordFirst(w) ==
    LET c == calls[w]
    IN  /\ c.pc = "delete_chunks"
        /\ pages' = [p \in (DOMAIN pages) \ {c.page_id} |-> pages[p]]
        /\ calls' = [calls EXCEPT ![w] = [pc |-> "delete_one", page_id |-> c.page_id]]
        /\ UNCHANGED <<index, dim, nextId, out>>

(* delete_page up to await delete_one: vector_store.delete_chunks(page_id) *)
DeletePageChunks(w) ==
    LET c == calls[w]
    IN  /\ c.pc = "delete_chunks"
        /\ index' = DeleteChunks(index, c.page_id).index
        /\ calls' = [calls EXCEPT ![w] = [pc |-> "delete_one", page_id |-> c.page_id]]
        /\ UNCHANGED <<pages, dim, nextId, out>>

(* result = await self.collection.delete_one({"_id": ObjectId(page_id)}) *)
DeleteOne(w) ==
    LET c == calls[w]
    IN  /\ c.pc = "delete_one"
        /\ pages' = [p \in (DOMAIN pages) \ {c.page_id} |-> pages[p]]
        /\ calls' = [calls EXCEPT ![w] =
               [pc |-> "deleted", page_id |-> c.page_id, success |-> TRUE,
                deleted_count |-> IF c.page_id \in DOMAIN pages THEN 1 ELSE 0]]
        /\ UNCHANGED <<index, dim, nextId, out>>

(* the caller takes the response of delete_page *)
DeleteReturn(w) ==
    /\ calls[w].pc = "deleted"
    /\ calls' = [calls EXCEPT ![w] = [pc |-> "idle"]]
    /\ UNCHANGED <<pages, index, dim, nextId, out>>

(* Writes serialized: a call starts when no other call is in progress *)
NextSerial ==
    \/ \E w \in Writers : Quiet /\ CreateCall(w)
    \/ \E w \in Writers : CreateInsertOne(w)
    \/ \E w \in Writers : CreateAddChunks(w)
    \/ \E w \in Writers : CreateSetStatus(w)
    \/ \E w \in Writers : CreateReturn(w)
    \/ \E w \in Writers : Quiet /\ UpdateCall(w)
    \/ \E w \in Writers : UpdateGetPage(w)
    \/ \E w \in Writers : UpdateReindex(w)
    \/ \E w \in Writers : UpdateOne(w)
    \/ \E w \in Writers : UpdateReturn(w)
    \/ \E w \in Writers : Quiet /\ DeleteCall(w)
    \/ \E w \in Writers : DeletePageChunks(w)
    \/ \E w \in Writers : DeleteOne(w)
    \/ \E w \in Writers : DeleteReturn(w)

SpecSerial == Init /\ [][NextSerial]_vars

-----------------------------------------------------------------------------
(* search step by step, among create, update and delete calls that are not *)
(* serialized. search runs without interruption up to its first await, the *)
(* find_one of the first hit; the record it builds a result from is the    *)
(* one that find_one returned.                                             *)

(* every chunk at distance 0 from the query *)
NearGeometry == [id \in Ids(index) |-> 0]

(* a request arrives: search(query, limit) runs up to the result loop *)
SearchBegin(w) ==
    /\ calls[w].pc = "idle"
    /\ \E query \in DegradeInputs, limit \in Limits, e \in Dims :
           LET query_embedding == EmbedQuery(query.query, e)
               chunks == VectorSearch(index, dim, query_embedding, limit * 3,
                                      VectorFilters(query), NearGeometry)
           IN  calls' = [calls EXCEPT ![w] =
                   [pc |-> IF chunks = << >> THEN "searched" ELSE "find_one",
                    query |-> query, limit |-> limit, chunks |-> chunks, i |-> 1,
                    results |-> << >>, seen_pages |-> {}]]
    /\ UNCHANGED <<pages, index, dim, nextId, out>>

(* one round of the result loop that takes the hit's metadata for the record *)
SearchHitFromMetadata(w) ==
    LET c == calls[w]
        chunk == c.chunks[c.i]
        page_id == chunk.metadata.page_id
        results == IF page_id \in c.seen_pages THEN c.results
                   ELSE Append(c.results,
                               [document_id |-> page_id,
                                title |-> chunk.metadata.title,
                                category |-> chunk.metadata.category,
                                similarity_score |-> chunk.similarity_score])
    IN  /\ c.pc = "find_one"
        /\ calls' = [calls EXCEPT ![w] =
               [c EXCEPT !.pc = IF Len(results) >= c.limit \/ c.i >= Len(c.chunks)
                                THEN "searched" ELSE "find_one",
                         !.i = c.i + 1,
                         !.results = results,
                         !.seen_pages = c.seen_pages \cup {page_id}]]
        /\ UNCHANGED <<pages, index, dim, nextId, out>>

(* one round of the result loop: page = await find_one(...), the checks, *)
(* the result                                                            *)
SearchHit(w) ==
    LET c == calls[w]
        chunk == c.chunks[c.i]
        skip == Skipped(chunk, c.query, c.seen_pages, pages)
        results == IF skip THEN c.results
                   ELSE Append(c.results,
                               MakeResult(chunk, c.query, pages,
                                          [summary |-> "ok", points |-> "ok"]))
    IN  /\ c.pc = "find_one"
        /\ calls' = [calls EXCEPT ![w] =
               [c EXCEPT !.pc = IF Len(results) >= c.limit \/ c.i >= Len(c.chunks)
                                THEN "searched" ELSE "find_one",
                         !.i = c.i + 1,
                         !.results = results,
                         !.seen_pages = IF skip THEN c.seen_pages
                                        ELSE c.seen_pages \cup {chunk.metadata.page_id}]]
        /\ UNCHANGED <<pages, index, dim, nextId, out>>

(* the caller takes the results of search *)
SearchReturn(w) ==
    /\ calls[w].pc = "searched"
    /\ calls' = [calls EXCEPT ![w] = [pc |-> "idle"]]
    /\ UNCHANGED <<pages, index, dim, nextId, out>>

NextInterleave ==
    \/ \E w \in Writers : CreateCall(w)
    \/ \E w \in Writers : CreateInsertOne(w)
    \/ \E w \in Writers : CreateAddChunks(w)
    \/ \E w \in Writers : CreateSetStatus(w)
    \/ \E w \in Writers : CreateReturn(w)
    \/ \E w \in Writers : UpdateCall(w)
    \/ \E w \in Writers : UpdateGetPage(w)
    \/ \E w \in Writers : UpdateReindex(w)
    \/ \E w \in Writers : UpdateOne(w)
    \/ \E w \in Writers : UpdateReturn(w)
    \/ \E w \in Writers : DeleteCall(w)
    \/ \E w \in Writers : DeletePageChunks(w)
    \/ \E w \in Writers : DeleteOne(w)
    \/ \E w \in Writers : DeleteReturn(w)
    \/ \E w \in Writers : SearchBegin(w)
    \/ \E w \in Writers : SearchHit(w)
    \/ \E w \in Writers : SearchReturn(w)

SpecInterleave == Init /\ [][NextInterleave]_vars

-----------------------------------------------------------------------------
(* Properties *)

(* the documents a chat or query call retrieved / a search call returned *)
Matched == IF out.op = "search" THEN out.results
           ELSE IF out.op = "chat" /\ out.searched THEN out.response.matched_documents
           ELSE << >>

(* C1. Category isolation: no step changes the category a page was created *)
(* with, and every document a chat call returns in matched_documents has   *)
(* the category the caller's role resolves to, whatever the query text,    *)
(* limit and tags.                                                         *)
C1_CategoryIsolation ==
    [][ /\ \A id \in (DOMAIN pages) \cap (DOMAIN pages') :
               pages'[id].category = pages[id].category
        /\ (out'.op = "chat" /\ out'.searched) =>
               \A i \in 1..Len(out'.response.matched_documents) :
                   LET doc == out'.response.matched_documents[i]
                   IN  /\ doc.document_id \in DOMAIN pages'
                       /\ pages'[doc.document_id].category =
                              RoleCategory(out'.req.user_role)
                       /\ doc.category = RoleCategory(out'.req.user_role) ]_vars

(* a chat call that returned documents while an indexed page of the other *)
(* category was in the repository                                         *)
C1_Witness ==
    /\ out.op = "chat"
    /\ out.searched
    /\ out.response.matched_documents # << >>
    /\ \E id \in DOMAIN pages :
           /\ pages[id].category # RoleCategory(out.req.user_role)
           /\ ChunksOf(index, id) # {}

(* the hits of the last search that belong to page p *)
HitsOf(p) == {i \in 1..Len(out.chunks) : out.chunks[i].metadata.page_id = p}

(* the positions of page p in the results of the last search *)
EmittedAt(p) == {i \in 1..Len(out.results) : out.results[i].document_id = p}

(* the best similarity among the returned chunks of page p *)
BestScore(p) ==
    CHOOSE x \in {out.chunks[i].similarity_score : i \in HitsOf(p)} :
        \A i \in HitsOf(p) : out.chunks[i].similarity_score <= x

(* page p passes the country, visibility and tags filters of the last search *)
PassesFilters(p) ==
    /\ p \in DOMAIN pages
    /\ Has(out.req, "country") =>
           \A i \in HitsOf(p) : out.chunks[i].metadata.country = out.req.country
    /\ Has(out.req, "visibility") => pages[p].visibility = out.req.visibility
    /\ Has(out.req, "tags") =>
           \E t \in {out.req.tags[j] : j \in 1..Len(out.req.tags)} :
               t \in {pages[p].tags[j] : j \in 1..Len(pages[p].tags)}

(* C2 as stated. Deduplication: a document with two or more chunks among    *)
(* the chunks the vector index returned is emitted exactly once, with the   *)
(* similarity of its best returned chunk.                                   *)
C2_Original ==
    out.op = "search" =>
        \A p \in PageIds :
            Cardinality(HitsOf(p)) >= 2 =>
                /\ Cardinality(EmittedAt(p)) = 1
                /\ \A i \in EmittedAt(p) : out.results[i].similarity_score = BestScore(p)

(* C2 amended. A document with two or more chunks among the returned chunks *)
(* is emitted at most once, and exactly once when it passes the country,    *)
(* visibility and tags filters and search returned fewer than limit         *)
(* results; an emitted result carries the similarity of the document's best *)
(* returned chunk.                                                          *)
C2_Deduplication ==
    out.op = "search" =>
        \A p \in PageIds :
            Cardinality(HitsOf(p)) >= 2 =>
                /\ Cardinality(EmittedAt(p)) <= 1
                /\ (PassesFilters(p) /\ Len(out.results) < out.limit) =>
                       Cardinality(EmittedAt(p)) = 1
                /\ \A i \in EmittedAt(p) : out.results[i].similarity_score = BestScore(p)

(* a search that emitted, after another document, a document whose two     *)
(* returned chunks differ in similarity                                    *)
C2_Witness ==
    /\ out.op = "search"
    /\ \E p \in PageIds :
           /\ Cardinality(HitsOf(p)) >= 2
           /\ \E i, j \in HitsOf(p) :
                  out.chunks[i].similarity_score # out.chunks[j].similarity_score
           /\ \E i \in EmittedAt(p) : i > 1

(* the chunks the index holds for page id, as (ordinal, text) pairs *)
StoredChunks(id) == {<<c.id[2], c.document>> : c \in ChunksOf(index, id)}

(* the segmentation of a text, as (ordinal, text) pairs *)
Segmentation(text) ==
    LET chunks == ChunkText(text, DefaultChunkSize, DefaultOverlap)
    IN  {<<i - 1, chunks[i]>> : i \in 1..Len(chunks)}

(* C3. Re-index replaces: after an update with changed content returned    *)
(* success, the chunks the index holds for the page are exactly the        *)
(* segmentation of the new content, with ordinals 0..n-1 and ids           *)
(* (page, ordinal).                                                        *)
C3_ReindexReplaces ==
    (out.op = "update" /\ out.success /\ out.reindexed) =>
        /\ StoredChunks(out.page_id) = Segmentation(pages[out.page_id].content)
        /\ \A c \in ChunksOf(index, out.page_id) : c.id[1] = out.page_id
        /\ Cardinality(ChunksOf(index, out.page_id)) =
               Cardinality(Segmentation(pages[out.page_id].content))

(* a successful update that replaced two chunks by one *)
C3_Witness ==
    /\ out.op = "update"
    /\ out.success
    /\ out.reindexed
    /\ pages[out.page_id].chunk_count = 2
    /\ Cardinality(ChunksOf(index, out.page_id)) = 1

(* C4 as stated. A page whose status is error has no chunk in the index. *)
C4_ErrorHasNoChunks ==
    \A id \in DOMAIN pages : pages[id].status = "error" => ChunksOf(index, id) = {}

(* the call of add_chunks the claim C5 is about *)
BadCounts(o) ==
    \/ o.chunks = << >>
    \/ o.embeddings = << >>
    \/ Len(o.chunks) # Len(o.embeddings)

(* C5. Index write atomicity: add_chunks called with chunks and embeddings *)
(* of different lengths, or with either empty, returns failure and leaves  *)
(* the index as it was.                                                    *)
C5_AddAtomic ==
    [][ (out'.op = "add_chunks" /\ BadCounts(out')) =>
            /\ ~out'.success
            /\ index' = index
            /\ (ChunksOf(index, out'.page_id) = {} =>
                    ChunksOf(index', out'.page_id) = {}) ]_vars

(* add_chunks called with two chunks and one embedding on a non-empty index *)
C5_Witness ==
    /\ out.op = "add_chunks"
    /\ Len(out.chunks) = 2
    /\ Len(out.embeddings) = 1
    /\ ~out.success
    /\ index # {}
    /\ ChunksOf(index, out.page_id) = {}

(* C6. Create outcome: create returns success exactly when the index write *)
(* succeeded; on success the page is indexed and the index holds exactly   *)
(* chunks_created chunks for it; when the index write fails the page stays *)
(* in the store with status error and the index holds no chunk for it.     *)
C6_CreateOutcome ==
    out.op = "create" =>
        /\ out.success <=>
               (out.inserted # NoId /\ ChunksOf(index, out.inserted) # {})
        /\ out.success =>
               /\ out.page_id = out.inserted
               /\ out.inserted \in DOMAIN pages
               /\ pages[out.inserted].status = "indexed"
               /\ Cardinality(ChunksOf(index, out.inserted)) = out.chunks_created
        /\ (~out.success /\ out.inserted # NoId) =>
               /\ out.inserted \in DOMAIN pages
               /\ pages[out.inserted].status = "error"
               /\ ChunksOf(index, out.inserted) = {}

(* a create whose index write failed *)
C6_Witness ==
    /\ out.op = "create"
    /\ ~out.success
    /\ out.inserted # NoId
    /\ out.error = "Failed to index chunks"

(* C7. Failed re-index on update: when the segment/embed/index step of an  *)
(* update with changed content fails, update returns failure, the page has *)
(* no chunk in the index and its record is as it was before the call.      *)
C7_FailedReindex ==
    [][ (out'.op = "update" /\ ~out'.success /\ out'.error # "Page not found") =>
            /\ out'.page_id \in DOMAIN pages
            /\ ChunksOf(index', out'.page_id) = {}
            /\ pages' = pages ]_vars

(* an update whose index write failed on a page that had been indexed *)
C7_Witness ==
    /\ out.op = "update"
    /\ ~out.success
    /\ out.error = "Failed to re-index content"
    /\ pages[out.page_id].status = "indexed"
    /\ ChunksOf(index, out.page_id) = {}

(* C8 as stated. A failed query embedding reaches the caller of search and *)
(* of chat as something other than a zero-match outcome.                   *)
C8_EmbedFailurePropagates ==
    /\ (out.op = "search" /\ out.embed_failed) =>
           (out.raised \/ out.results # << >>)
    /\ (out.op = "chat" /\ out.searched /\ out.embed_failed) =>
           (out.raised \/ out.response.answer # "No relevant documents found")

RECURSIVE ScoreTotal(_, _)
(* the sum of the first n similarity scores of a list of results *)
ScoreTotal(docs, n) ==
    IF n = 0 THEN 0 ELSE docs[n].similarity_score + ScoreTotal(docs, n - 1)

(* c is the arithmetic mean of the scores of docs, within [0, 1] *)
IsMeanOf(c, docs) ==
    /\ c * Len(docs) = ScoreTotal(docs, Len(docs))
    /\ 0 <= c
    /\ c <= Unit

C10_AbsenceIsSuccess ==
    /\ (out.op = "chat" /\ out.searched /\ out.retrieved = << >>) =>
           /\ ~out.raised
           /\ out.generate_calls = 0
           /\ out.response.answer = "No relevant documents found"
           /\ out.response.confidence = 0
           /\ out.response.matched_documents = << >>
    /\ (out.op = "query" /\ out.retrieved = << >>) =>
           /\ ~out.raised
           /\ out.generate_calls = 0
           /\ out.response.answer = "No relevant information found"
           /\ out.response.confidence = 0
           /\ out.response.sources = << >>

(* a chat over an index that holds chunks of the caller's category and     *)
(* retrieved nothing, the query embedding having succeeded                 *)
C10_Witness ==
    /\ out.op = "chat"
    /\ out.searched
    /\ out.retrieved = << >>
    /\ ~out.embed_failed
    /\ \E c \in index : c.meta.category = RoleCategory(out.req.user_role)

(* C11. Every search returns at most limit results, each from a distinct   *)
(* document, with similarity scores that do not increase along the list.   *)
C11_RankedResults ==
    out.op = "search" =>
        /\ Len(out.results) <= out.limit
        /\ \A i, j \in 1..Len(out.results) :
               i < j => /\ out.results[i].document_id # out.results[j].document_id
                        /\ out.results[i].similarity_score >=
                               out.results[j].similarity_score

(* a search with limit 1 over an index that returned chunks of two         *)
(* documents, at different similarities                                    *)
C11_Witness ==
    /\ out.op = "search"
    /\ out.limit = 1
    /\ Len(out.results) = 1
    /\ \E i, j \in 1..Len(out.chunks) :
           /\ out.chunks[i].metadata.page_id # out.chunks[j].metadata.page_id
           /\ out.chunks[i].similarity_score # out.chunks[j].similarity_score
           /\ ~Skipped(out.chunks[i], out.req, {}, pages)
           /\ ~Skipped(out.chunks[j], out.req, {}, pages)

(* writers a and b have both completed a successful, re-indexing update of *)
(* the same page, with different new content                               *)
BothUpdated(a, b) ==
    /\ a # b
    /\ calls[a].pc = "done" /\ calls[b].pc = "done"
    /\ calls[a].success /\ calls[b].success
    /\ calls[a].reindexed /\ calls[b].reindexed
    /\ calls[a].page_id = calls[b].page_id
    /\ calls[a].update_data.content # calls[b].update_data.content

(* C12. Unserialized writers: after two concurrent update_page calls with  *)
(* different new content on the same page have both completed, the index   *)
(* holds the chunks of one call's content and the record the content of    *)
(* one call, and nothing makes the two the same call (the witness is the   *)
(* state where they are not).                                              *)
C12_UnserializedWriters ==
    \A a, b \in Writers :
        BothUpdated(a, b) =>
            LET p == calls[a].page_id
                ca == calls[a].update_data.content
                cb == calls[b].update_data.content
            IN  /\ p \in DOMAIN pages
                /\ StoredChunks(p) \in {Segmentation(ca), Segmentation(cb)}
                /\ pages[p].content \in {ca, cb}

(* both calls have completed; the index holds the chunks of a's content,   *)
(* the record holds b's content                                            *)
C12_Witness ==
    \E a, b \in Writers :
        /\ BothUpdated(a, b)
        /\ StoredChunks(calls[a].page_id) = Segmentation(calls[a].update_data.content)
        /\ pages[calls[a].page_id].content = calls[b].update_data.content

(* C13. No operation changes the category of a page after its creation,   *)
(* and every chunk in the index carries, in its metadata, the current      *)
(* category of the page it belongs to.                                     *)
C13_CategoryImmutable ==
    [][ /\ \A id \in (DOMAIN pages) \cap (DOMAIN pages') :
               pages'[id].category = pages[id].category
        /\ \A c \in index' :
               /\ c.meta.page_id \in DOMAIN pages'
               /\ c.meta.category = pages'[c.meta.page_id].category ]_vars

(* a successful re-indexing update, with chunks of both categories in the  *)
(* index                                                                   *)
C13_Witness ==
    /\ out.op = "update"
    /\ out.success
    /\ out.reindexed
    /\ \E c \in ChunksOf(index, out.page_id), d \in index :
           c.meta.category # d.meta.category

(* C14. A chat call whose user_role is neither agent nor technician, in    *)
(* any letter case, returns a descriptive answer with no matched document  *)
(* and confidence 0, without raising, without embedding the query and      *)
(* without searching the index.                                            *)
C14_UnknownRole ==
    (out.op = "chat" /\ Lower(out.req.user_role) \notin {"agent", "technician"}) =>
        /\ ~out.raised
        /\ ~out.searched
        /\ out.generate_calls = 0
        /\ out.response.answer = "Invalid user role"
        /\ out.response.matched_documents = << >>
        /\ out.response.confidence = 0

(* a chat call with the role admin over an index that holds chunks *)
C14_Witness ==
    /\ out.op = "chat"
    /\ out.req.user_role = "admin"
    /\ index # {}

(* the category parameter of the last GET /search is malformed: not empty *)
(* and neither category, in any letter case                               *)
MalformedCategory ==
    /\ Has(out.params, "category")
    /\ out.params.category # ""
    /\ Lower(out.params.category) \notin {"agent", "technician"}

(* C15 as stated. A search request with a malformed category filter is    *)
(* rejected: it is not executed as a search and returns no document.       *)
C15_MalformedRejected ==
    (out.op = "semantic_search" /\ MalformedCategory) =>
        /\ out.rejected
        /\ ~out.searched
        /\ out.results = << >>

(* C16 as stated. The query operation runs retrieval with every filter of  *)
(* its request: every document retrieved for a QueryRequest that carries a *)
(* category has that category, and likewise for visibility and tags.       *)
C16_QueryFilters ==
    out.op = "query" =>
        \A i \in 1..Len(out.retrieved) :
            LET doc == out.retrieved[i]
            IN  /\ Has(out.req, "category") => doc.category = out.req.category
                /\ Has(out.req, "visibility") =>
                       pages[doc.document_id].visibility = out.req.visibility
                /\ Has(out.req, "tags") => TagsIntersect(doc.tags, out.req.tags)

(* C17 as stated. A query whose retrieval yields at least one document     *)
(* returns a response, without raising, whose sources are the retrieved    *)
(* documents and whose confidence is the mean of their similarity scores.  *)
C17_QueryAnswers ==
    (out.op = "query" /\ out.retrieved # << >>) =>
        /\ ~out.raised
        /\ out.response.sources = out.retrieved
        /\ IsMeanOf(out.response.confidence, out.retrieved)

(* the results of the last search, had every generate call succeeded *)
ResultsAllOk ==
    ResultLoop(out.chunks, 1, out.req, out.limit, << >>, {}, pages, Uniform("ok"))

(* C18. Per-document degradation: when the generate endpoint fails (error  *)
(* status or exception) on the summary call or the matched-points call of  *)
(* a candidate, search still emits the candidate, with the truncated text  *)
(* in place of what the failed call would have produced, and goes on: the  *)
(* emitted document ids and their order are those of a search in which     *)
(* every generate call succeeds.                                           *)
C18_Degradation ==
    out.op = "search" =>
        /\ ~out.raised
        /\ Len(out.results) = Len(ResultsAllOk)
        /\ \A i \in 1..Len(out.results) :
               /\ out.results[i].document_id = ResultsAllOk[i].document_id
               /\ out.results[i].similarity_score = ResultsAllOk[i].similarity_score
               /\ out.gen[i].summary # "ok" =>
                      out.results[i].long_summary =
                          [kind |-> "truncated", of |-> pages[out.results[i].document_id].content]
               /\ out.gen[i].points # "ok" =>
                      out.results[i].matched_points.kind = "truncated"

(* a search that emitted two documents, the generate endpoint having       *)
(* raised on the summary of the first and answered with an error status on *)
(* its matched points, and succeeded for the second                        *)
C18_Witness ==
    /\ out.op = "search"
    /\ Len(out.results) = 2
    /\ out.gen[1] = [summary |-> "exception", points |-> "http_error"]
    /\ out.gen[2] = [summary |-> "ok", points |-> "ok"]
    /\ out.results[2].long_summary.kind = "generated"

Accepted(d, embeddings) ==
    /\ \A i \in 1..Len(embeddings) : embeddings[i] = embeddings[1]
    /\ d = NoDim \/ \A i \in 1..Len(embeddings) : embeddings[i] = d

C21_DeleteOrdering ==
    \A c \in index : c.meta.page_id \in DOMAIN pages

(* delete_page between its two steps: the chunks of an indexed page are    *)
(* gone, its record is still there                                         *)
C21_Witness ==
    \E w \in Writers :
        /\ calls[w].pc = "delete_one"
        /\ calls[w].page_id \in DOMAIN pages
        /\ pages[calls[w].page_id].status = "indexed"
        /\ ChunksOf(index, calls[w].page_id) = {}

(* C22. delete_chunks(id) removes all the chunks whose page_id is id and   *)
(* no other, and reports how many they were; called for a page without     *)
(* chunks it returns success with count 0 and leaves the index as it was.  *)
C22_DeleteChunks ==
    [][ out'.op = "delete_chunks" =>
            /\ out'.success
            /\ \A c \in index : c \in index' <=> c.meta.page_id # out'.page_id
            /\ index' \subseteq index
            /\ out'.deleted_chunks = Cardinality(index) - Cardinality(index')
            /\ (\A c \in index : c.meta.page_id # out'.page_id) =>
                   /\ out'.deleted_chunks = 0
                   /\ index' = index ]_vars

(* delete_chunks removed the two chunks of a page and left those of the    *)
(* other page                                                              *)
C22_Witness ==
    /\ out.op = "delete_chunks"
    /\ out.deleted_chunks = 2
    /\ index # {}

(* sentence i of the last chunk_text call is in its chunk c *)
InChunk(i, c) == \E k \in 1..Len(out.chunks[c]) : out.chunks[c][k] = out.text[i]

(* the chunks of the last chunk_text call that hold sentence i *)
ChunksWith(i) == {c \in 1..Len(out.chunks) : InChunk(i, c)}

(* the first chunk that holds sentence i *)
FirstChunk(i) == CHOOSE c \in ChunksWith(i) : \A d \in ChunksWith(i) : c <= d

(* C23. Segmentation loses nothing: every sentence with words is whole in  *)
(* at least one chunk, the chunks hold the sentences in the order of the   *)
(* input, and no chunk is empty.                                           *)
C23_NothingLost ==
    out.op = "chunk_text" =>
        /\ \A i \in 1..Len(out.text) : out.text[i].w > 0 => ChunksWith(i) # {}
        /\ \A c \in 1..Len(out.chunks) :
               /\ out.chunks[c] # << >>
               /\ Words(out.chunks[c]) > 0
               /\ \A k, l \in 1..Len(out.chunks[c]) :
                      k < l => out.chunks[c][k].id < out.chunks[c][l].id
        /\ \A i, j \in 1..Len(out.text) :
               (i < j /\ out.text[i].w > 0 /\ out.text[j].w > 0) =>
                   FirstChunk(i) <= FirstChunk(j)

(* a call that made three chunks or more, with an overlap, of a text that  *)
(* ends in white space                                                     *)
C23_Witness ==
    /\ out.op = "chunk_text"
    /\ Len(out.chunks) >= 3
    /\ out.overlap = 20
    /\ out.text[Len(out.text)].w = 0

(* the sentences of the last chunk_text call with more words than chunk_size *)
Oversize == {i \in 1..Len(out.text) : out.text[i].w > out.chunk_size}

(* the last n pieces of a chunk *)
Tail_(chunk, n) == SubSeq(chunk, Len(chunk) - n + 1, Len(chunk))

(* C24 as stated. A sentence with more words than chunk_size is its own    *)
(* chunk: every chunk that holds it holds nothing else.                    *)
C24_Original ==
    out.op = "chunk_text" =>
        \A i \in Oversize : \A c \in ChunksWith(i) : out.chunks[c] = <<out.text[i]>>

(* C24, amended. A sentence with more words than chunk_size closes the     *)
(* chunk before it and is the last sentence of the first chunk that holds  *)
(* it; whatever precedes it in that chunk is the end of the preceding      *)
(* chunk, repeated as overlap. It is alone in that chunk exactly when it   *)
(* is the first sentence of the text or the preceding chunk is one         *)
(* sentence.                                                               *)
C24_Oversize ==
    out.op = "chunk_text" =>
        \A i \in Oversize :
            /\ ChunksWith(i) # {}
            /\ LET c == FirstChunk(i)
                   chunk == out.chunks[c]
                   n == Len(chunk) - 1
               IN  /\ chunk[Len(chunk)] = out.text[i]
                   /\ c = 1 <=> i = 1
                   /\ n > 0 => /\ c > 1
                               /\ n <= Len(out.chunks[c - 1])
                               /\ SubSeq(chunk, 1, n) = Tail_(out.chunks[c - 1], n)
                   /\ n = 0 <=> (c = 1 \/ Len(out.chunks[c - 1]) = 1)

(* an oversize sentence in the middle of a text, in a chunk that starts    *)
(* with one sentence of overlap, and repeated in the chunk after it        *)
C24_Witness ==
    /\ out.op = "chunk_text"
    /\ out.overlap = 10
    /\ \E i \in Oversize :
           /\ 1 < i /\ i < Len(out.text)
           /\ Len(out.chunks[FirstChunk(i)]) = 2
           /\ Cardinality(ChunksWith(i)) = 2

(* C25. Overlap rule: the chunk after a closed chunk begins with exactly   *)
(* the last floor(overlap/10) sentences of the closed chunk (all of them   *)
(* when it has fewer) and continues with new sentences only.               *)
C25_OverlapRule ==
    out.op = "chunk_text" =>
        \A c \in 1..(Len(out.chunks) - 1) :
            LET closed == out.chunks[c]
                next == out.chunks[c + 1]
                k == out.overlap \div 10
                m == IF k < Len(closed) THEN k ELSE Len(closed)
            IN  /\ Len(next) > m
                /\ SubSeq(next, 1, m) = Tail_(closed, m)
                /\ \A l \in (m + 1)..Len(next) : next[l].id > closed[Len(closed)].id

(* the hits of the last search that the n-th result can have been made of: *)
(* hits of its document with its similarity                                *)
MatchedHits(n) ==
    {i \in HitsOf(out.results[n].document_id) :
         out.chunks[i].similarity_score = out.results[n].similarity_score}

(* C26. Every result of a search satisfies every filter of the query: its  *)
(* category is the requested category, the country stored with the matched *)
(* chunk is the requested country, and the document's record has the       *)
(* requested visibility and a tag in common with the requested tags.       *)
C26_FiltersHold ==
    out.op = "search" =>
        \A n \in 1..Len(out.results) :
            LET result == out.results[n]
                p == result.document_id
            IN  /\ p \in DOMAIN pages
                /\ MatchedHits(n) # {}
                /\ Has(out.req, "category") =>
                       /\ result.category = out.req.category
                       /\ pages[p].category = out.req.category
                /\ Has(out.req, "country") =>
                       \A i \in MatchedHits(n) :
                           /\ Has(out.chunks[i].metadata, "country")
                           /\ out.chunks[i].metadata.country = out.req.country
                /\ Has(out.req, "visibility") =>
                       pages[p].visibility = out.req.visibility
                /\ Has(out.req, "tags") =>
                       /\ TagsIntersect(pages[p].tags, out.req.tags)
                       /\ TagsIntersect(result.tags, out.req.tags)

(* a search with a visibility and a tags filter that emitted one document  *)
(* and skipped a nearer one whose record, updated since it was indexed,    *)
(* fails the visibility filter its chunk metadata passes                   *)
C26_Witness ==
    /\ out.op = "search"
    /\ Has(out.req, "visibility") /\ Has(out.req, "tags")
    /\ Len(out.results) = 1
    /\ \E i \in 1..Len(out.chunks) :
           LET q == out.chunks[i].metadata.page_id
           IN  /\ q # out.results[1].document_id
               /\ out.chunks[i].similarity_score > out.results[1].similarity_score
               /\ out.chunks[i].metadata.visibility = out.req.visibility
               /\ pages[q].visibility # out.req.visibility

(* call c is an update_page call that found the record and changes content *)
ChangesContent(c) ==
    \/ /\ c.pc = "reindex"
       /\ Has(c.update_data, "content")
       /\ c.update_data.content # << >>
       /\ c.update_data.content # c.existing_page.content
    \/ c.pc = "update_one" /\ c.reindexed

KeepsContent(o, docs) ==
    /\ o.op = "update"
    /\ \/ ~Has(o.req, "content")
       \/ o.req.content = << >>
       \/ o.page_id \in DOMAIN docs /\ o.req.content = docs[o.page_id].content

(* C28. An update_page call that does not change content performs no       *)
(* index operation: it leaves every chunk, with its metadata, as it was,   *)
(* whatever it changes in the record, and succeeds when the record exists. *)
C28_NoIndexOperation ==
    [][ KeepsContent(out', pages) =>
            /\ index' = index
            /\ dim' = dim
            /\ out'.page_id \in DOMAIN pages =>
                   /\ out'.success
                   /\ ~out'.reindexed
                   /\ pages'[out'.page_id].content = pages[out'.page_id].content ]_vars

(* an update without content has changed the visibility and the tags of a  *)
(* record whose chunks still carry the old ones                            *)
C28_Witness ==
    /\ out.op = "update"
    /\ out.success
    /\ ~Has(out.req, "content")
    /\ Has(out.req, "visibility")
    /\ \E c \in ChunksOf(index, out.page_id) :
           /\ c.meta.visibility # pages[out.page_id].visibility
           /\ c.meta.tags # JoinTags(pages[out.page_id].tags)

(* call c is a search call *)
Searching(c) == c.pc \in {"find_one", "searched"}

(* C29. Under any interleaving of the steps of create, update, delete and  *)
(* search calls, every result a search emits is for a document whose       *)
(* record is in the repository when the hit is processed, and carries the  *)
(* fields of that record.                                                  *)
C29_NoResultWithoutRecord ==
    [][ \A w \in Writers :
            (Searching(calls'[w]) /\ calls'[w].results # << >> /\
             (~Searching(calls[w]) \/ calls'[w].results # calls[w].results)) =>
                LET result == calls'[w].results[Len(calls'[w].results)]
                IN  /\ result.document_id \in DOMAIN pages
                    /\ result.title = pages[result.document_id].title
                    /\ result.category = pages[result.document_id].category ]_vars

(* a search has gone through chunks that an update racing a delete left in *)
(* the index for a removed record, and emitted nothing for them            *)
C29_Witness ==
    \E w \in Writers :
        /\ calls[w].pc = "searched"
        /\ calls[w].chunks # << >>
        /\ calls[w].results = << >>
        /\ ~Has(calls[w].query, "category")
        /\ \A v \in Writers \ {w} : calls[v].pc = "idle"
        /\ \A i \in 1..Len(calls[w].chunks) :
               /\ calls[w].chunks[i].metadata.page_id \notin DOMAIN pages
               /\ calls[w].chunks[i].chunk_id \in Ids(index)

(* C30. Between operations, the chunk_count of every record whose status   *)
(* is indexed is the number of chunks the index holds for the document.    *)
C30_ChunkCount ==
    Idle =>
        \A id \in DOMAIN pages :
            pages[id].status = "indexed" =>
                pages[id].chunk_count = Cardinality(ChunksOf(index, id))

=============================================================================
